---- MODULE Spec2Model ----
(***************************************************************************)
(* A model of rodlayout's alignment layer (rodlayout/handle.py and         *)
(* rodlayout/proxy.py): the handle registry, the shape proxies, the        *)
(* fluent align handles, the align call with its native and ghost paths,   *)
(* and the remote database the proxies talk to.  Every remote call is one  *)
(* step, so that a failing remote call and the unwinding of the ghost      *)
(* scopes can be observed.                                                 *)
(***************************************************************************)
EXTENDS Integers, Sequences, FiniteSets, TLC

(***************************************************************************)
(* Bounds of the model.                                                    *)
(***************************************************************************)
\* the caller passes 0..MaxKw reference anchors as keywords to align
MaxKw == 2
\* at most MaxFail remote calls fail during one operation
MaxFail == 1
\* a collection handed to a query holds at most MaxLen elements
MaxLen == 3

(***************************************************************************)
(* rodlayout/handle.py: the registry of symbolic anchor names.             *)
(***************************************************************************)
handle_part_y ==
    << <<"top", "upper">>, <<"upper", "upper">>, <<"bottom", "lower">>,
       <<"lower", "lower">>, <<"center", "center">> >>

handle_part_x == <<"left", "center", "right">>

\* a registry that joins the parts without str.title()
TitleLeftOut(x) == x

\* str.title() on the three horizontal parts
Title(x) ==
    CASE x = "left" -> "Left"
      [] x = "center" -> "Center"
      [] x = "right" -> "Right"

\* d[k] = v for every <<k, v>> of items, in order: a later item overwrites
RECURSIVE DictUpdate(_, _)
DictUpdate(d, items) ==
    IF items = <<>> THEN d
    ELSE LET k == Head(items)[1]
             v == Head(items)[2]
             rest == [n \in (DOMAIN d) \ {k} |-> d[n]]
         IN DictUpdate((k :> v) @@ rest, Tail(items))

\* the items of the dict comprehension, py outer, x inner
ComprehensionItems ==
    [i \in 1..(Len(handle_part_y) * Len(handle_part_x)) |->
        LET y == handle_part_y[((i - 1) \div Len(handle_part_x)) + 1]
            x == handle_part_x[((i - 1) % Len(handle_part_x)) + 1]
        IN <<y[1] \o "_" \o x, y[2] \o Title(x)>>]

\* for x in _handle_part_x: python_skill_handle[x] = 'center' + x.title()
HorizontalItems ==
    [i \in 1..Len(handle_part_x) |->
        <<handle_part_x[i], "center" \o Title(handle_part_x[i])>>]

\* for py, sy in _handle_part_y: python_skill_handle[py] = sy + 'Center'
VerticalItems ==
    [i \in 1..Len(handle_part_y) |->
        <<handle_part_y[i][1], handle_part_y[i][2] \o "Center">>]

EmptyDict == [n \in {} |-> ""]

python_skill_handle ==
    DictUpdate(DictUpdate(DictUpdate(EmptyDict, ComprehensionItems),
                          HorizontalItems), VerticalItems)

RegistryNames == DOMAIN python_skill_handle

\* names a caller may try that the table does not hold
UnknownNames == {"middle", "upperLeft"}

Names == RegistryNames \cup UnknownNames

\* the eight anchors the specification lists, and the nine the remote knows
EightAnchors ==
    {"upperLeft", "upperCenter", "upperRight", "centerRight",
     "lowerRight", "lowerCenter", "lowerLeft", "centerLeft"}

NineAnchors == EightAnchors \cup {"centerCenter"}

(***************************************************************************)
(* The remote database: the permanent objects of the fixture.              *)
(***************************************************************************)
Cv1 == "cv1"
Cv2 == "cv2"

\* obj_type, cell view and initial bounding box of each permanent object
Fixture ==
    << [obj_type |-> "rect",     cv |-> Cv1, b_box |-> <<<<0, 0>>, <<10, 10>>>>],
       [obj_type |-> "inst",     cv |-> Cv1, b_box |-> <<<<20, 20>>, <<30, 40>>>>],
       [obj_type |-> "figGroup", cv |-> Cv1, b_box |-> <<<<0, 4>>, <<2, 8>>>>],
       [obj_type |-> "rect",     cv |-> Cv1, b_box |-> <<<<-4, -6>>, <<12, 18>>>>],
       [obj_type |-> "rect",     cv |-> Cv2, b_box |-> <<<<40, 0>>, <<44, 6>>>>] >>

Leaves == DOMAIN Fixture

\* the master of the instance: its bounding box and its P&R boundary
MasterBBox == <<<<-2, -4>>, <<8, 16>>>>
MasterPrBoundary == <<<<-2, -4>>, <<6, 4>>>>

(***************************************************************************)
(* Geometry of the remote side.                                            *)
(***************************************************************************)
Add(p, q) == <<p[1] + q[1], p[2] + q[2]>>
Sub(p, q) == <<p[1] - q[1], p[2] - q[2]>>
MoveBox(b, d) == <<Add(b[1], d), Add(b[2], d)>>

Min(a, b) == IF a <= b THEN a ELSE b
Max(a, b) == IF a >= b THEN a ELSE b

\* the point of box b that skill handle h names
HandlePoint(b, h) ==
    LET x == CASE h \in {"upperLeft", "centerLeft", "lowerLeft"} -> b[1][1]
               [] h \in {"upperRight", "centerRight", "lowerRight"} -> b[2][1]
               [] OTHER -> (b[1][1] + b[2][1]) \div 2
        y == CASE h \in {"lowerLeft", "lowerCenter", "lowerRight"} -> b[1][2]
               [] h \in {"upperLeft", "upperCenter", "upperRight"} -> b[2][2]
               [] OTHER -> (b[1][2] + b[2][2]) \div 2
    IN <<x, y>>

(***************************************************************************)
(* rodlayout/proxy.py: the shape proxies.  A proxy is a record: its class, *)
(* the remote object it wraps (0 for a collection) and its elements.       *)
(***************************************************************************)
DbShape(db) == [variant |-> "DbShape", db |-> db, elements |-> <<>>]
RodShape(db) == [variant |-> "RodShape", db |-> db, elements |-> <<>>]
Instance(db) == [variant |-> "Instance", db |-> db, elements |-> <<>>]
FigureCollection(elements) ==
    [variant |-> "FigureCollection", db |-> 0, elements |-> elements]

\* isinstance(shape, RodShape): Instance extends RodShape
IsRodShape(shape) == shape.variant \in {"RodShape", "Instance"}

IsCollection(shape) == shape.variant = "FigureCollection"

Rod1 == RodShape(1)
Inst2 == Instance(2)
Db3 == DbShape(3)
Rod4 == RodShape(4)
Rod5 == RodShape(5)

LeafShapes == {Rod1, Inst2, Db3, Rod4, Rod5}

\* get_db_ids: the flat, depth-first list of the remote ids a shape holds
RECURSIVE get_db_ids(_)
RECURSIVE ConcatDbIds(_)
ConcatDbIds(elements) ==
    IF elements = <<>> THEN <<>>
    ELSE get_db_ids(Head(elements)) \o ConcatDbIds(Tail(elements))

get_db_ids(shape) ==
    IF IsCollection(shape) THEN ConcatDbIds(shape.elements) ELSE <<shape.db>>

IdSet(shape) == {get_db_ids(shape)[i] : i \in DOMAIN get_db_ids(shape)}

\* one entry of the log of remote calls
Call(op, obj) ==
    [op |-> op, obj |-> obj, ref |-> 0, ah |-> "", rh |-> "",
     maintain |-> FALSE, sep |-> <<0, 0>>, ok |-> TRUE]

\* cell_view: [err, cv, reads]; reads are the remote reads it issued.  A
\* collection asks every element in order, indexes the first answer and
\* asserts that all answers equal it.
RECURSIVE cell_view(_)
RECURSIVE ElementsCv(_)
ElementsCv(elements) ==
    IF elements = <<>> THEN [err |-> "none", cvs |-> <<>>, reads |-> <<>>]
    ELSE LET h == cell_view(Head(elements))
         IN IF h.err # "none"
            THEN [err |-> h.err, cvs |-> <<>>, reads |-> h.reads]
            ELSE LET t == ElementsCv(Tail(elements))
                 IN [err |-> t.err, cvs |-> <<h.cv>> \o t.cvs,
                     reads |-> h.reads \o t.reads]

cell_view(shape) ==
    IF ~IsCollection(shape)
    THEN [err |-> "none", cv |-> Fixture[shape.db].cv,
          reads |-> <<Call("cell_view", shape.db)>>]
    ELSE LET e == ElementsCv(shape.elements)
         IN IF e.err # "none" THEN [err |-> e.err, cv |-> "", reads |-> e.reads]
            ELSE IF e.cvs = <<>>
            THEN [err |-> "IndexError", cv |-> "", reads |-> e.reads]
            ELSE IF \E i \in DOMAIN e.cvs : e.cvs[i] # e.cvs[1]
            THEN [err |-> "ContainerMismatch", cv |-> "", reads |-> e.reads]
            ELSE [err |-> "none", cv |-> e.cvs[1], reads |-> e.reads]

\* the collections the align handles are taken from: flat, nested, and one
\* whose elements live in two cell views
CollA == FigureCollection(<<Rod1, Db3>>)
CollB == FigureCollection(<<Inst2, FigureCollection(<<Rod4>>)>>)
CollMis == FigureCollection(<<Rod4, Rod5>>)

AlignShapes == {Rod1, Inst2, Db3, CollA, CollB, CollMis}

\* the collections handed to the cell_view and skill_b_box queries
ElementShapes ==
    LeafShapes \cup {FigureCollection(<<>>), FigureCollection(<<Rod4>>),
                     FigureCollection(<<Rod1, Rod5>>)}

QueryCollections ==
    {FigureCollection(e) :
        e \in UNION {[1..n -> ElementShapes] : n \in 0..MaxLen}}

Seps == {<<0, 0>>, <<1, 2>>}

(***************************************************************************)
(* The align handles: _AlignHandle(_shape, _pr, _handle) and its subclass  *)
(* _RodAlignHandle.                                                        *)
(***************************************************************************)
NoShape == [variant |-> "none", db |-> 0, elements |-> <<>>]
NoHandle == [cls |-> "none", shape |-> NoShape, pr |-> FALSE, handle |-> ""]

AlignHandle(shape, pr, handle) ==
    [cls |-> "_AlignHandle", shape |-> shape, pr |-> pr, handle |-> handle]

RodAlignHandle(shape, pr, handle) ==
    [cls |-> "_RodAlignHandle", shape |-> shape, pr |-> pr, handle |-> handle]

\* Figure.b_box and RodShape.b_box
b_box_handle(shape) ==
    IF IsRodShape(shape) THEN RodAlignHandle(shape, FALSE, "")
    ELSE AlignHandle(shape, FALSE, "")

\* Instance.pr_boundary
pr_boundary_handle(shape) == AlignHandle(shape, TRUE, "")

\* Figure.__getattr__ and RodShape.__getattr__, for a name of the table
shape_getattr(shape, name) ==
    IF IsRodShape(shape)
    THEN RodAlignHandle(shape, FALSE, python_skill_handle[name])
    ELSE AlignHandle(shape, FALSE, python_skill_handle[name])

\* _AlignHandle.__getattr__, for a name of the table
handle_getattr(h, name) ==
    AlignHandle(h.shape, h.pr, python_skill_handle[name])

(***************************************************************************)
(* The decision of align and _do_align, before any remote call.            *)
(* [err, path, align_handle, key]: path is "rod" (the native primitive on  *)
(* the shapes' own rod handles) or "ghost"; key is the name line 43 looked *)
(* up ("" when the call ended before it).                                  *)
(***************************************************************************)
Decision(err, path, ah) ==
    [err |-> err, path |-> path, align_handle |-> ah, key |-> ""]

\* _do_align without the check of line 51
do_align_ignores_maintain(self, ref, ah, maintain) ==
    Decision("none", "ghost", ah)

\* _AlignHandle._do_align, line 51
do_align(self, ref, ah, maintain) ==
    IF maintain THEN Decision("IncompatibleAlignment", "none", ah)
    ELSE Decision("none", "ghost", ah)

\* _RodAlignHandle._do_align, lines 78-91
rod_do_align(self, ref, ah, maintain) ==
    IF maintain /\ ~IsRodShape(ref.shape)
    THEN Decision("IncompatibleAlignment", "none", ah)
    ELSE IF maintain /\ (self.pr \/ ref.pr)
    THEN Decision("IncompatibleAlignment", "none", ah)
    ELSE IF ~IsRodShape(ref.shape) \/ ~IsRodShape(self.shape)
            \/ self.pr \/ ref.pr
    THEN do_align(self, ref, ah, maintain)
    ELSE Decision("none", "rod", ah)

\* align without the assertion of line 41
align_skips_ref_assert(self, ref, nkw, key, maintain) ==
    IF nkw # 1 THEN Decision("InvalidAlignmentRequest", "none", "")
    ELSE IF key \notin DOMAIN python_skill_handle
    THEN [Decision("UnknownHandle", "none", "") EXCEPT !.key = key]
    ELSE IF self.cls = "_RodAlignHandle"
    THEN [rod_do_align(self, ref, python_skill_handle[key], maintain)
             EXCEPT !.key = key]
    ELSE [do_align(self, ref, python_skill_handle[key], maintain)
             EXCEPT !.key = key]

\* align that hands a name the table does not hold on as the anchor
align_passes_unknown_key(self, ref, nkw, key, maintain) ==
    IF nkw # 1 THEN Decision("InvalidAlignmentRequest", "none", "")
    ELSE IF ref.handle = "" THEN Decision("InvalidAlignmentRequest", "none", "")
    ELSE IF self.cls = "_RodAlignHandle"
    THEN [rod_do_align(self, ref,
                       IF key \in DOMAIN python_skill_handle
                       THEN python_skill_handle[key] ELSE key, maintain)
             EXCEPT !.key = key]
    ELSE [do_align(self, ref,
                   IF key \in DOMAIN python_skill_handle
                   THEN python_skill_handle[key] ELSE key, maintain)
             EXCEPT !.key = key]

\* _AlignHandle.align, lines 39-46; nkw keyword anchors were passed, the
\* last of them is key |-> ref
align(self, ref, nkw, key, maintain) ==
    IF nkw # 1 THEN Decision("InvalidAlignmentRequest", "none", "")
    ELSE IF ref.handle = "" THEN Decision("InvalidAlignmentRequest", "none", "")
    ELSE IF key \notin DOMAIN python_skill_handle
    THEN [Decision("UnknownHandle", "none", "") EXCEPT !.key = key]
    ELSE IF self.cls = "_RodAlignHandle"
    THEN [rod_do_align(self, ref, python_skill_handle[key], maintain)
             EXCEPT !.key = key]
    ELSE [do_align(self, ref, python_skill_handle[key], maintain)
             EXCEPT !.key = key]

(***************************************************************************)
(* State.                                                                  *)
(***************************************************************************)
VARIABLES
    hSelf,      \* the handle the caller built for the aligned side
    hRef,       \* the handle the caller built for the reference side
    op,         \* the operation running or finished
    pc,         \* its position: "idle", a step, "done" or "raised"
    frame,      \* the locals of align and _do_align
    cur,        \* the locals of the ghost_shape being set up
    scopes,     \* the ghost_shape scopes that have yielded, innermost first
    bb,         \* the locals of the running skill_b_box or cell_view query
    b_box,      \* remote: the bounding box of each permanent object
    temps,      \* remote: every object created since Init, deleted or not
    log,        \* the remote calls issued, in order
    err,        \* the exception in flight or raised
    failed,     \* the steps at which a remote call failed
    result,     \* the value returned
    asked       \* the name last looked up, when the table does not hold it

vars == <<hSelf, hRef, op, pc, frame, cur, scopes, bb, b_box, temps, log,
          err, failed, result, asked>>

NoBox == <<<<0, 0>>, <<0, 0>>>>
NoFrame ==
    [cls |-> "none", shape |-> NoShape, pr |-> FALSE, ref_shape |-> NoShape,
     ref_pr |-> FALSE, ref_handle |-> "", align_handle |-> "",
     sep |-> <<0, 0>>, maintain |-> FALSE, nkw |-> 0, cell_view |-> ""]
NoCur == [side |-> "none", b_box |-> NoBox, rod_shape |-> 0, group_id |-> 0, i |-> 0]
NoBb == [shape |-> NoShape, group_id |-> 0, i |-> 0, b_box |-> NoBox, ret |-> "none"]

Init ==
    /\ hSelf = NoHandle
    /\ hRef = NoHandle
    /\ op = "none"
    /\ pc = "idle"
    /\ frame = NoFrame
    /\ cur = NoCur
    /\ scopes = <<>>
    /\ bb = NoBb
    /\ b_box = [o \in Leaves |-> Fixture[o].b_box]
    /\ temps = <<>>
    /\ log = <<>>
    /\ err = "none"
    /\ failed = <<>>
    /\ result = NoShape
    /\ asked = ""

(***************************************************************************)
(* The remote database.                                                    *)
(***************************************************************************)
NLeaves == Len(Fixture)
NewId == NLeaves + Len(temps) + 1
IsTemp(id) == id > NLeaves
Temp(id) == temps[id - NLeaves]

ObjBox(id) == IF IsTemp(id) THEN Temp(id).b_box ELSE b_box[id]

\* the box around a set of boxes
Hull(boxes) ==
    IF boxes = {} THEN NoBox
    ELSE LET lo(k) == CHOOSE m \in {b[1][k] : b \in boxes} :
                          \A b \in boxes : m <= b[1][k]
             hi(k) == CHOOSE m \in {b[2][k] : b \in boxes} :
                          \A b \in boxes : m >= b[2][k]
         IN <<<<lo(1), lo(2)>>, <<hi(1), hi(2)>>>>

\* the bounding box of a figure group: the box around its members
GroupBox(figs) == Hull({ObjBox(figs[i]) : i \in DOMAIN figs})

\* rod.create_rect and db.create_fig_group
NewRect(cv, box) ==
    [type |-> "rect", cv |-> cv, b_box |-> box, figs |-> <<>>, valid |-> TRUE]
NewGroup(cv) ==
    [type |-> "figGroup", cv |-> cv, b_box |-> NoBox, figs |-> <<>>, valid |-> TRUE]

\* db.add_fig_to_fig_group: the figure joins the group by reference
AddFig(ts, group, fig) ==
    [ts EXCEPT ![group - NLeaves].figs = Append(@, fig)]

\* db.delete_object on a temporary object: a deleted group leaves its
\* members where they are
DeleteObject(ts, id) == [ts EXCEPT ![id - NLeaves].valid = FALSE]

\* the objects that move with obj: obj and, when a live group holds it,
\* every member of that group
MovesWith(obj) ==
    {obj} \cup UNION {{temps[g].figs[i] : i \in DOMAIN temps[g].figs} :
                        g \in {k \in DOMAIN temps :
                                 /\ temps[k].type = "figGroup"
                                 /\ temps[k].valid
                                 /\ \E i \in DOMAIN temps[k].figs :
                                        temps[k].figs[i] = obj}}

\* rod.align: the offset that puts align_obj's handle on ref_obj's handle
\* plus the separation
AlignOffset(align_obj, ah, ref_obj, rh, sep) ==
    Sub(Add(HandlePoint(ObjBox(ref_obj), rh), sep),
        HandlePoint(ObjBox(align_obj), ah))

\* Instance.skill_pr_boundary, lines 452-459
skill_pr_boundary(db) ==
    LET inst_rel(p) == Sub(p, MasterBBox[1])
        abs(p) == Add(inst_rel(p), b_box[db][1])
    IN <<abs(MasterPrBoundary[1]), abs(MasterPrBoundary[2])>>

\* the arguments of one rod.align call, which are its log entry too
AlignArgs(align_obj, ah, ref_obj, rh, maintain, sep) ==
    [op |-> "rod.align", obj |-> align_obj, ref |-> ref_obj, ah |-> ah,
     rh |-> rh, maintain |-> maintain, sep |-> sep, ok |-> TRUE]

\* rod.align moves align_obj, and what is grouped with it, by the offset
MovedBoxes(a) ==
    LET d == AlignOffset(a.obj, a.ah, a.ref, a.rh, a.sep)
    IN [o \in Leaves |->
           IF o \in MovesWith(a.obj) THEN MoveBox(b_box[o], d) ELSE b_box[o]]

MovedTemps(a) ==
    LET d == AlignOffset(a.obj, a.ah, a.ref, a.rh, a.sep)
    IN [k \in DOMAIN temps |->
           IF (k + NLeaves) \in MovesWith(a.obj) /\ temps[k].type = "rect"
           THEN [temps[k] EXCEPT !.b_box = MoveBox(@, d)]
           ELSE temps[k]]

\* the log entry of a call on two objects
Call2(o, obj, ref) == [Call(o, obj) EXCEPT !.ref = ref]

(***************************************************************************)
(* The caller builds the two handles.                                      *)
(***************************************************************************)
SetHandle(side, h) ==
    IF side = "self" THEN hSelf' = h /\ UNCHANGED hRef
    ELSE hRef' = h /\ UNCHANGED hSelf

HandleOf(side) == IF side = "self" THEN hSelf ELSE hRef

Sides == {"self", "ref"}

\* ghost_shape without try/finally: an exception leaves the operation at once
UnwindSkipsFinally(e) ==
    /\ err' = e
    /\ cur' = NoCur
    /\ bb' = NoBb
    /\ pc' = "raised"

\* an exception leaves the operation: the ghost scopes that have yielded
\* run their finally blocks, innermost first
Unwind(e) ==
    /\ err' = e
    /\ cur' = NoCur
    /\ bb' = NoBb
    /\ pc' = IF scopes = <<>> THEN "raised" ELSE "fin_group"

\* shape.b_box
TakeBBox(side, shape) ==
    /\ pc = "idle"
    /\ SetHandle(side, b_box_handle(shape))
    /\ UNCHANGED <<op, pc, frame, cur, scopes, bb, b_box, temps, log, err,
                   failed, result, asked>>

\* instance.pr_boundary
TakePrBoundary(side, shape) ==
    /\ pc = "idle"
    /\ shape.variant = "Instance"
    /\ SetHandle(side, pr_boundary_handle(shape))
    /\ UNCHANGED <<op, pc, frame, cur, scopes, bb, b_box, temps, log, err,
                   failed, result, asked>>

\* shape.<name>: a KeyError when the table does not hold the name
ShapeGetattr(side, shape, name) ==
    /\ pc = "idle"
    /\ IF name \in DOMAIN python_skill_handle
       THEN /\ SetHandle(side, shape_getattr(shape, name))
            /\ UNCHANGED <<op, pc, err, cur, bb>>
       ELSE /\ op' = "shape_getattr"
            /\ Unwind("UnknownHandle")
            /\ UNCHANGED <<hSelf, hRef>>
    /\ asked' = IF name \in RegistryNames THEN "" ELSE name
    /\ UNCHANGED <<frame, scopes, b_box, temps, log, failed, result>>

\* handle.<name>: a KeyError when the table does not hold the name
HandleGetattr(side, name) ==
    /\ pc = "idle"
    /\ HandleOf(side) # NoHandle
    /\ IF name \in DOMAIN python_skill_handle
       THEN /\ SetHandle(side, handle_getattr(HandleOf(side), name))
            /\ UNCHANGED <<op, pc, err, cur, bb>>
       ELSE /\ op' = "handle_getattr"
            /\ Unwind("UnknownHandle")
            /\ UNCHANGED <<hSelf, hRef>>
    /\ asked' = IF name \in RegistryNames THEN "" ELSE name
    /\ UNCHANGED <<frame, scopes, b_box, temps, log, failed, result>>

(***************************************************************************)
(* handle.align(sep, maintain, **{key: ref}): the checks of align and      *)
(* _do_align up to the first remote call.  The two handles are consumed:   *)
(* the frame keeps the fields the call reads.  The two shapes share no     *)
(* remote object.                                                          *)
(***************************************************************************)
AlignCall(nkw, key, sep, maintain) ==
    /\ pc = "idle"
    /\ hSelf # NoHandle
    /\ hRef # NoHandle
    /\ IdSet(hSelf.shape) \cap IdSet(hRef.shape) = {}
    /\ LET d == align(hSelf, hRef, nkw, key, maintain)
       IN /\ frame' = [cls |-> hSelf.cls, shape |-> hSelf.shape, pr |-> hSelf.pr,
                       ref_shape |-> hRef.shape, ref_pr |-> hRef.pr,
                       ref_handle |-> hRef.handle,
                       align_handle |-> d.align_handle, sep |-> sep,
                       maintain |-> maintain, nkw |-> nkw, cell_view |-> ""]
          /\ IF d.err # "none"
             THEN Unwind(d.err)
             ELSE /\ pc' = IF d.path = "rod" THEN "native_rod" ELSE "cv"
                  /\ UNCHANGED <<err, cur, bb>>
          /\ asked' = IF d.key \in RegistryNames THEN "" ELSE d.key
    /\ op' = "align"
    /\ hSelf' = NoHandle
    /\ hRef' = NoHandle
    /\ UNCHANGED <<scopes, b_box, temps, log, failed, result>>

\* lines 93-102: the native primitive on the shapes' own rod handles
RodAlignArgs ==
    AlignArgs(frame.shape.db, frame.align_handle, frame.ref_shape.db,
              frame.ref_handle, frame.maintain, frame.sep)

NativeRod ==
    /\ pc = "native_rod"
    /\ b_box' = MovedBoxes(RodAlignArgs)
    /\ log' = Append(log, RodAlignArgs)
    /\ pc' = "done"
    /\ result' = FigureCollection(<<frame.shape, frame.ref_shape>>)
    /\ UNCHANGED <<hSelf, hRef, op, frame, cur, scopes, bb, temps, err, failed, asked>>

\* line 53: cell_view = self._shape.cell_view
CellViewStep ==
    /\ pc = "cv"
    /\ LET r == cell_view(frame.shape)
       IN /\ log' = log \o r.reads
          /\ IF r.err # "none"
             THEN Unwind(r.err) /\ UNCHANGED frame
             ELSE /\ frame' = [frame EXCEPT !.cell_view = r.cv]
                  /\ cur' = [NoCur EXCEPT !.side = "self"]
                  /\ pc' = "gs_box"
                  /\ UNCHANGED <<err, bb>>
    /\ UNCHANGED <<hSelf, hRef, op, scopes, b_box, temps, failed, result, asked>>

(***************************************************************************)
(* ghost_shape(cell_view, figure, pr), lines 474-493, one remote call per  *)
(* step.  cur.side says whose scope is being set up.                       *)
(***************************************************************************)
Figure(side) == IF side = "self" THEN frame.shape ELSE frame.ref_shape
Pr(side) == IF side = "self" THEN frame.pr ELSE frame.ref_pr

\* line 474: b_box = figure.skill_pr_boundary if pr else figure.skill_b_box
GhostBox ==
    /\ pc = "gs_box"
    /\ LET figure == Figure(cur.side)
       IN IF Pr(cur.side)
          THEN IF figure.variant = "Instance"
               THEN /\ cur' = [cur EXCEPT !.b_box = skill_pr_boundary(figure.db)]
                    /\ log' = Append(log, Call("pr_boundary", figure.db))
                    /\ pc' = "gs_rect"
                    /\ UNCHANGED <<err, bb>>
               ELSE Unwind("UnsupportedOperation") /\ UNCHANGED log
          ELSE IF IsCollection(figure)
               THEN /\ bb' = [NoBb EXCEPT !.shape = figure, !.ret = "gs_rect"]
                    /\ pc' = "bb_create"
                    /\ UNCHANGED <<err, cur, log>>
               ELSE /\ cur' = [cur EXCEPT !.b_box = b_box[figure.db]]
                    /\ log' = Append(log, Call("b_box", figure.db))
                    /\ pc' = "gs_rect"
                    /\ UNCHANGED <<err, bb>>
    /\ UNCHANGED <<hSelf, hRef, op, frame, scopes, b_box, temps, failed, result, asked>>

\* lines 475-480: rod.create_rect(layer="M1", cv_id=cell_view, b_box=b_box)
GhostCreateRect ==
    /\ pc = "gs_rect"
    /\ temps' = Append(temps, NewRect(frame.cell_view, cur.b_box))
    /\ cur' = [cur EXCEPT !.rod_shape = NewId]
    /\ log' = Append(log, Call("create_rect", NewId))
    /\ pc' = "gs_group"
    /\ UNCHANGED <<hSelf, hRef, op, frame, scopes, bb, b_box, err, failed, result, asked>>

\* lines 481-483: db.create_fig_group(cell_view, ...)
GhostCreateGroup ==
    /\ pc = "gs_group"
    /\ temps' = Append(temps, NewGroup(frame.cell_view))
    /\ cur' = [cur EXCEPT !.group_id = NewId]
    /\ log' = Append(log, Call("create_fig_group", NewId))
    /\ pc' = "gs_add_marker"
    /\ UNCHANGED <<hSelf, hRef, op, frame, scopes, bb, b_box, err, failed, result, asked>>

\* nested scopes that would be left outermost first
YieldOuterFirst(c) ==
    /\ scopes' = scopes \o <<[side |-> c.side, rod_shape |-> c.rod_shape,
                              group_id |-> c.group_id]>>
    /\ IF c.side = "self"
       THEN cur' = [NoCur EXCEPT !.side = "ref"] /\ pc' = "gs_box"
       ELSE cur' = NoCur /\ pc' = "native"

\* the scope yields its marker: the with block of the next side, or the body
Yield(c) ==
    /\ scopes' = <<[side |-> c.side, rod_shape |-> c.rod_shape,
                    group_id |-> c.group_id]>> \o scopes
    /\ IF c.side = "self"
       THEN cur' = [NoCur EXCEPT !.side = "ref"] /\ pc' = "gs_box"
       ELSE cur' = NoCur /\ pc' = "native"

\* line 484: db.add_fig_to_fig_group(group_id, rod_shape.db_id)
GhostAddMarker ==
    /\ pc = "gs_add_marker"
    /\ temps' = AddFig(temps, cur.group_id, cur.rod_shape)
    /\ log' = Append(log, Call2("add_fig_to_fig_group", cur.group_id, cur.rod_shape))
    /\ IF get_db_ids(Figure(cur.side)) = <<>>
       THEN Yield(cur)
       ELSE /\ cur' = [cur EXCEPT !.i = 1]
            /\ pc' = "gs_add_fig"
            /\ UNCHANGED scopes
    /\ UNCHANGED <<hSelf, hRef, op, frame, bb, b_box, err, failed, result, asked>>

\* lines 485-486: one turn of the loop over figure.get_db_ids()
GhostAddFig ==
    /\ pc = "gs_add_fig"
    /\ LET ids == get_db_ids(Figure(cur.side))
       IN /\ temps' = AddFig(temps, cur.group_id, ids[cur.i])
          /\ log' = Append(log, Call2("add_fig_to_fig_group", cur.group_id, ids[cur.i]))
          /\ IF cur.i = Len(ids)
             THEN Yield(cur)
             ELSE /\ cur' = [cur EXCEPT !.i = @ + 1]
                  /\ UNCHANGED <<pc, scopes>>
    /\ UNCHANGED <<hSelf, hRef, op, frame, bb, b_box, err, failed, result, asked>>

\* the native primitive on the two markers with the two anchors exchanged
GhostAlignArgsExchanged ==
    AlignArgs(scopes[2].rod_shape, frame.ref_handle, scopes[1].rod_shape,
              frame.align_handle, FALSE, frame.sep)

\* lines 56-64: the native primitive on the two markers, maintain=False
GhostAlignArgs ==
    AlignArgs(scopes[2].rod_shape, frame.align_handle, scopes[1].rod_shape,
              frame.ref_handle, FALSE, frame.sep)

Native ==
    /\ pc = "native"
    /\ b_box' = MovedBoxes(GhostAlignArgs)
    /\ temps' = MovedTemps(GhostAlignArgs)
    /\ log' = Append(log, GhostAlignArgs)
    /\ pc' = "fin_group"
    /\ UNCHANGED <<hSelf, hRef, op, frame, cur, scopes, bb, err, failed, result, asked>>

\* line 492: db.delete_object(group_id) of the innermost scope
FinallyDeleteGroup ==
    /\ pc = "fin_group"
    /\ temps' = DeleteObject(temps, scopes[1].group_id)
    /\ log' = Append(log, Call("delete_object", scopes[1].group_id))
    /\ pc' = "fin_marker"
    /\ UNCHANGED <<hSelf, hRef, op, frame, cur, scopes, bb, b_box, err, failed, result, asked>>

\* where control goes once the innermost scope is left
Leave(rest) ==
    IF rest # <<>> THEN "fin_group"
    ELSE IF err # "none" THEN "raised" ELSE "done"

\* line 493: db.delete_object(rod_shape.db_id); the scope is left; line 65
\* returns once the outer scope is left too
FinallyDeleteMarker ==
    /\ pc = "fin_marker"
    /\ temps' = DeleteObject(temps, scopes[1].rod_shape)
    /\ log' = Append(log, Call("delete_object", scopes[1].rod_shape))
    /\ scopes' = Tail(scopes)
    /\ pc' = Leave(Tail(scopes))
    /\ result' = IF Leave(Tail(scopes)) = "done"
                 THEN FigureCollection(<<frame.shape, frame.ref_shape>>)
                 ELSE result
    /\ UNCHANGED <<hSelf, hRef, op, frame, cur, bb, b_box, err, failed, asked>>

(***************************************************************************)
(* FigureCollection.skill_b_box, lines 185-192, one remote call per step.  *)
(***************************************************************************)
\* lines 185-187: self.cell_view is evaluated, then db.create_fig_group
BBoxCreateGroup ==
    /\ pc = "bb_create"
    /\ LET r == cell_view(bb.shape)
       IN IF r.err # "none"
          THEN /\ log' = log \o r.reads
               /\ Unwind(r.err)
               /\ UNCHANGED temps
          ELSE /\ temps' = Append(temps, NewGroup(r.cv))
               /\ log' = (log \o r.reads) \o <<Call("create_fig_group", NewId)>>
               /\ bb' = [bb EXCEPT !.group_id = NewId, !.i = 1]
               /\ pc' = IF get_db_ids(bb.shape) = <<>> THEN "bb_read" ELSE "bb_add"
               /\ UNCHANGED <<err, cur>>
    /\ UNCHANGED <<hSelf, hRef, op, frame, scopes, b_box, failed, result, asked>>

\* lines 188-189: one turn of the loop over self.get_db_ids()
BBoxAddFig ==
    /\ pc = "bb_add"
    /\ LET ids == get_db_ids(bb.shape)
       IN /\ temps' = AddFig(temps, bb.group_id, ids[bb.i])
          /\ log' = Append(log, Call2("add_fig_to_fig_group", bb.group_id, ids[bb.i]))
          /\ bb' = [bb EXCEPT !.i = @ + 1]
          /\ pc' = IF bb.i = Len(ids) THEN "bb_read" ELSE "bb_add"
    /\ UNCHANGED <<hSelf, hRef, op, frame, cur, scopes, b_box, err, failed, result, asked>>

\* line 190: b_box = group_id.b_box
BBoxRead ==
    /\ pc = "bb_read"
    /\ bb' = [bb EXCEPT !.b_box = GroupBox(Temp(bb.group_id).figs)]
    /\ log' = Append(log, Call("b_box", bb.group_id))
    /\ pc' = "bb_delete"
    /\ UNCHANGED <<hSelf, hRef, op, frame, cur, scopes, b_box, temps, err, failed,
                   result, asked>>

\* skill_b_box returning the box without line 191
BBoxReturnsWithoutDelete ==
    /\ pc = "bb_delete"
    /\ bb' = NoBb
    /\ IF bb.ret = "gs_rect"
       THEN /\ cur' = [cur EXCEPT !.b_box = bb.b_box]
            /\ pc' = "gs_rect"
            /\ UNCHANGED result
       ELSE /\ result' = bb.b_box
            /\ pc' = "done"
            /\ UNCHANGED cur
    /\ UNCHANGED <<hSelf, hRef, op, frame, scopes, b_box, temps, log, err,
                   failed, asked>>

\* lines 191-192: db.delete_object(group_id); return b_box
BBoxDeleteGroup ==
    /\ pc = "bb_delete"
    /\ temps' = DeleteObject(temps, bb.group_id)
    /\ log' = Append(log, Call("delete_object", bb.group_id))
    /\ bb' = NoBb
    /\ IF bb.ret = "gs_rect"
       THEN /\ cur' = [cur EXCEPT !.b_box = bb.b_box]
            /\ pc' = "gs_rect"
            /\ UNCHANGED result
       ELSE /\ result' = bb.b_box
            /\ pc' = "done"
            /\ UNCHANGED cur
    /\ UNCHANGED <<hSelf, hRef, op, frame, scopes, b_box, err, failed, asked>>

(***************************************************************************)
(* The two queries of a collection, called on their own.                   *)
(***************************************************************************)
\* collection.cell_view
CellViewQuery(shape) ==
    /\ pc = "idle"
    /\ hSelf = NoHandle
    /\ hRef = NoHandle
    /\ op' = "cell_view"
    /\ frame' = [NoFrame EXCEPT !.shape = shape]
    /\ pc' = "cvq"
    /\ UNCHANGED <<hSelf, hRef, cur, scopes, bb, b_box, temps, log, err,
                   failed, result, asked>>

\* lines 174-177
CellViewReturn ==
    /\ pc = "cvq"
    /\ LET r == cell_view(frame.shape)
       IN /\ log' = log \o r.reads
          /\ IF r.err # "none"
             THEN Unwind(r.err) /\ UNCHANGED result
             ELSE /\ result' = r.cv
                  /\ pc' = "done"
                  /\ UNCHANGED <<err, cur, bb>>
    /\ UNCHANGED <<hSelf, hRef, op, frame, scopes, b_box, temps, failed, asked>>

\* collection.skill_b_box
SkillBBoxQuery(shape) ==
    /\ pc = "idle"
    /\ hSelf = NoHandle
    /\ hRef = NoHandle
    /\ op' = "skill_b_box"
    /\ frame' = [NoFrame EXCEPT !.shape = shape]
    /\ bb' = [NoBb EXCEPT !.shape = shape, !.ret = "return"]
    /\ pc' = "bb_create"
    /\ UNCHANGED <<hSelf, hRef, cur, scopes, b_box, temps, log, err,
                   failed, result, asked>>

(***************************************************************************)
(* copy(translate, transform) of DbShape (lines 280-297) and of RodShape   *)
(* (lines 415-424), which Instance inherits; one remote call per step.     *)
(* The transform is the default, Transform.identity.  frame.shape is the   *)
(* receiver, frame.sep the translate, frame.cell_view the cell view read,  *)
(* bb.group_id the db the remote returned and bb.i the loop position.      *)
(***************************************************************************)
Translates == {<<0, 0>>, <<3, -1>>}

\* the boxes of the figures a permanent object holds: the figure group of
\* the fixture is drawn around one rectangle, every other object holds none
FixtureFigs ==
    [o \in Leaves |->
        IF Fixture[o].obj_type = "figGroup" THEN <<Fixture[o].b_box>> ELSE <<>>]

\* db.copy_fig(self.db, cell_view, (translate, transform)): the objects the
\* remote creates, the copies of the held figures first and the copy of the
\* object last, every box moved by translate
CopyFigObjects(o, cv, translate) ==
    LET n == Len(FixtureFigs[o])
        child(i) == [type |-> "rect", cv |-> cv,
                     b_box |-> MoveBox(FixtureFigs[o][i], translate),
                     figs |-> <<>>, valid |-> TRUE]
        copy == [type |-> Fixture[o].obj_type, cv |-> cv,
                 b_box |-> MoveBox(b_box[o], translate),
                 figs |-> [i \in 1..n |-> NewId + i - 1], valid |-> TRUE]
    IN [i \in 1..n |-> child(i)] \o <<copy>>

\* the proxy RodShape.copy builds, line 424, whatever the receiver's class
RodShapeCopyResult(shape, db) == RodShape(db)

\* the proxy DbShape.copy builds, line 297
DbShapeCopyResult(shape, db) == DbShape(db)

\* shape.copy(translate)
CopyCall(shape, translate) ==
    /\ pc = "idle"
    /\ hSelf = NoHandle
    /\ hRef = NoHandle
    /\ op' = "copy"
    /\ frame' = [NoFrame EXCEPT !.shape = shape, !.sep = translate]
    /\ pc' = "cp_cv"
    /\ UNCHANGED <<hSelf, hRef, cur, scopes, bb, b_box, temps, log, err,
                   failed, result, asked>>

\* line 297: self.db.cell_view; line 421: self.rod.cv_id
CopyCellView ==
    /\ pc = "cp_cv"
    /\ frame' = [frame EXCEPT !.cell_view = Fixture[frame.shape.db].cv]
    /\ log' = Append(log, Call(IF IsRodShape(frame.shape) THEN "cv_id"
                               ELSE "cell_view", frame.shape.db))
    /\ pc' = "cp_fig"
    /\ UNCHANGED <<hSelf, hRef, op, cur, scopes, bb, b_box, temps, err,
                   failed, result, asked>>

\* lines 284-285: db = current_workspace.db.copy_fig(self.db, cell_view, ...)
CopyFig ==
    /\ pc = "cp_fig"
    /\ LET new == CopyFigObjects(frame.shape.db, frame.cell_view, frame.sep)
           db == NLeaves + Len(temps) + Len(new)
       IN /\ temps' = temps \o new
          /\ bb' = [NoBb EXCEPT !.shape = frame.shape, !.group_id = db, !.i = 1]
          /\ log' = Append(log, Call2("copy_fig", db, frame.shape.db))
    /\ pc' = "cp_figs"
    /\ UNCHANGED <<hSelf, hRef, op, frame, cur, scopes, b_box, err, failed,
                   result, asked>>

\* where copy goes once the held figures are promoted: RodShape.copy names
\* the copy (line 422), DbShape.copy returns (line 297)
AfterPromote(shape) == IF IsRodShape(shape) THEN "cp_name" ELSE "done"

\* line 274: fig_grp.figs is read for the loop of _promote_children_to_rod
CopyReadFigs ==
    /\ pc = "cp_figs"
    /\ log' = Append(log, Call("figs", bb.group_id))
    /\ IF Temp(bb.group_id).figs = <<>>
       THEN /\ pc' = AfterPromote(frame.shape)
            /\ result' = IF AfterPromote(frame.shape) = "done"
                         THEN DbShapeCopyResult(frame.shape, bb.group_id)
                         ELSE result
       ELSE pc' = "cp_promote" /\ UNCHANGED result
    /\ UNCHANGED <<hSelf, hRef, op, frame, cur, scopes, bb, b_box, temps, err,
                   failed, asked>>

\* lines 275-278: one turn of the loop; the held figure is no figure group,
\* so it is named: current_workspace.rod.name_shape(shape_id=fig)
CopyPromoteChild ==
    /\ pc = "cp_promote"
    /\ LET figs == Temp(bb.group_id).figs
       IN /\ Temp(figs[bb.i]).type # "figGroup"
          /\ log' = Append(log, Call("name_shape", figs[bb.i]))
          /\ IF bb.i = Len(figs)
             THEN /\ pc' = AfterPromote(frame.shape)
                  /\ result' = IF AfterPromote(frame.shape) = "done"
                               THEN DbShapeCopyResult(frame.shape, bb.group_id)
                               ELSE result
                  /\ UNCHANGED bb
             ELSE /\ bb' = [bb EXCEPT !.i = @ + 1]
                  /\ UNCHANGED <<pc, result>>
    /\ UNCHANGED <<hSelf, hRef, op, frame, cur, scopes, b_box, temps, err,
                   failed, asked>>

\* lines 422-424: rod = rod.name_shape(shape_id=db); return RodShape(db, rod)
CopyNameShape ==
    /\ pc = "cp_name"
    /\ log' = Append(log, Call("name_shape", bb.group_id))
    /\ result' = RodShapeCopyResult(frame.shape, bb.group_id)
    /\ pc' = "done"
    /\ UNCHANGED <<hSelf, hRef, op, frame, cur, scopes, bb, b_box, temps, err,
                   failed, asked>>

(***************************************************************************)
(* A remote call fails: the remote session raises instead of answering.    *)
(***************************************************************************)
\* the remote call the step at pc issues ("" when it issues none)
RemoteOpAt ==
    CASE pc = "cv" -> IF cell_view(frame.shape).reads = <<>> THEN "" ELSE "cell_view"
      [] pc = "cvq" -> IF cell_view(frame.shape).reads = <<>> THEN "" ELSE "cell_view"
      [] pc = "gs_box" ->
            IF Pr(cur.side)
            THEN IF Figure(cur.side).variant = "Instance" THEN "pr_boundary" ELSE ""
            ELSE IF IsCollection(Figure(cur.side)) THEN "" ELSE "b_box"
      [] pc = "gs_rect" -> "create_rect"
      [] pc \in {"gs_group", "bb_create"} -> "create_fig_group"
      [] pc \in {"gs_add_marker", "gs_add_fig", "bb_add"} -> "add_fig_to_fig_group"
      [] pc = "bb_read" -> "b_box"
      [] pc \in {"bb_delete", "fin_group", "fin_marker"} -> "delete_object"
      [] pc \in {"native", "native_rod"} -> "rod.align"
      [] pc = "cp_cv" -> IF IsRodShape(frame.shape) THEN "cv_id" ELSE "cell_view"
      [] pc = "cp_fig" -> "copy_fig"
      [] pc = "cp_figs" -> "figs"
      [] pc \in {"cp_promote", "cp_name"} -> "name_shape"
      [] OTHER -> ""

RemoteFails ==
    /\ RemoteOpAt # ""
    /\ Len(failed) < MaxFail
    /\ failed' = Append(failed, pc)
    /\ log' = Append(log, [Call(RemoteOpAt, 0) EXCEPT !.ok = FALSE])
    /\ IF pc \in {"fin_group", "fin_marker"}
       THEN \* the finally block of the innermost scope is left by the error
            /\ scopes' = Tail(scopes)
            /\ err' = "RemoteError"
            /\ pc' = IF Tail(scopes) = <<>> THEN "raised" ELSE "fin_group"
            /\ UNCHANGED <<cur, bb>>
       ELSE Unwind("RemoteError") /\ UNCHANGED scopes
    /\ UNCHANGED <<hSelf, hRef, op, frame, b_box, temps, result, asked>>

\* what the caller may do between operations
Caller ==
    /\ pc = "idle"
    /\ \/ \E side \in Sides, shape \in AlignShapes : TakeBBox(side, shape)
       \/ \E side \in Sides, shape \in AlignShapes : TakePrBoundary(side, shape)
       \/ \E side \in Sides, shape \in AlignShapes, name \in Names :
             ShapeGetattr(side, shape, name)
       \/ \E side \in Sides, name \in Names : HandleGetattr(side, name)
       \/ /\ hSelf # NoHandle
          /\ hRef # NoHandle
          /\ \E nkw \in 0..MaxKw, key \in Names, sep \in Seps, maintain \in BOOLEAN :
                AlignCall(nkw, key, sep, maintain)
       \/ /\ hSelf = NoHandle
          /\ hRef = NoHandle
          /\ \/ \E shape \in QueryCollections : CellViewQuery(shape)
             \/ \E shape \in QueryCollections : SkillBBoxQuery(shape)
             \/ \E shape \in LeafShapes, translate \in Translates :
                   CopyCall(shape, translate)

Next ==
    \/ Caller
    \/ NativeRod
    \/ CellViewStep
    \/ GhostBox
    \/ GhostCreateRect
    \/ GhostCreateGroup
    \/ GhostAddMarker
    \/ GhostAddFig
    \/ Native
    \/ FinallyDeleteGroup
    \/ FinallyDeleteMarker
    \/ BBoxCreateGroup
    \/ BBoxAddFig
    \/ BBoxRead
    \/ BBoxDeleteGroup
    \/ CellViewReturn
    \/ CopyCellView
    \/ CopyFig
    \/ CopyReadFigs
    \/ CopyPromoteChild
    \/ CopyNameShape
    \/ RemoteFails

Spec == Init /\ [][Next]_vars

(***************************************************************************)
(* Properties.                                                             *)
(***************************************************************************)
LiveTemps == {k \in DOMAIN temps : temps[k].valid}

\* align was given one keyword, a reference anchor that is set, and a key of
\* the table
ValidRequest ==
    /\ frame.nkw = 1
    /\ frame.ref_handle # ""
    /\ frame.align_handle # ""

NoRemoteCall == log = <<>> /\ temps = <<>>

HasCollection == IsCollection(frame.shape) \/ IsCollection(frame.ref_shape)

\* the successful rod.align calls issued so far
AlignCalls == SelectSeq(log, LAMBDA c : c.op = "rod.align" /\ c.ok)

\* the box an align handle stands for, read from the remote state now
BoxNow(shape, pr) ==
    IF pr THEN skill_pr_boundary(shape.db)
    ELSE Hull({b_box[o] : o \in IdSet(shape)})

\* C1: an align call on the ghost path that ends, with the native primitive
\* answering or raising inside the scopes, has deleted every marker and every
\* temporary group it created: the remote objects are those of before.
C1_GhostLeavesNoTemps ==
    (/\ op = "align"
     /\ pc \in {"done", "raised"}
     /\ \A i \in DOMAIN failed : failed[i] = "native")
        => LiveTemps = {}

C1_Witness ==
    /\ op = "align"
    /\ pc = "raised"
    /\ failed = <<"native">>
    /\ Len(temps) = 6
    /\ LiveTemps = {}

\* C2: two rod-capable shapes without the placement-boundary flag are aligned
\* by one call of the native primitive on their own rod handles, with the
\* caller's maintain, and no temporary object, however the aligned-side
\* handle was obtained.
C2_RodPairTakesNativePath ==
    (/\ op = "align"
     /\ ValidRequest
     /\ IsRodShape(frame.shape) /\ IsRodShape(frame.ref_shape)
     /\ ~frame.pr /\ ~frame.ref_pr)
        => /\ temps = <<>>
           /\ \/ pc = "native_rod" /\ log = <<>>
              \/ pc = "done" /\ log = <<RodAlignArgs>>
              \/ pc = "raised" /\ failed = <<"native_rod">>

\* C3: align with maintain=true ends in the incompatible-alignment error when
\* either side is a DbShape, a FigureCollection or carries the
\* placement-boundary flag, and has issued no remote call.
C3_MaintainRejected ==
    (/\ op = "align"
     /\ ValidRequest
     /\ frame.maintain
     /\ \/ ~IsRodShape(frame.shape) \/ ~IsRodShape(frame.ref_shape)
        \/ frame.pr \/ frame.ref_pr)
        => /\ pc = "raised"
           /\ err = "IncompatibleAlignment"
           /\ NoRemoteCall

C3_Witness ==
    /\ op = "align"
    /\ frame.maintain
    /\ frame.cls = "_RodAlignHandle"
    /\ frame.ref_pr
    /\ err = "IncompatibleAlignment"
    /\ NoRemoteCall

\* the temporary groups that hold a marker, and those that hold none
PairGroups ==
    {k \in DOMAIN temps :
        /\ temps[k].type = "figGroup"
        /\ \E i \in DOMAIN temps[k].figs :
              IsTemp(temps[k].figs[i]) /\ Temp(temps[k].figs[i]).type = "rect"}
BareGroups ==
    {k \in DOMAIN temps : temps[k].type = "figGroup"} \ PairGroups
Markers == {k \in DOMAIN temps : temps[k].type = "rect"}

CollectionSides ==
    {side \in Sides : IsCollection(Figure(side))}

\* C4 as claimed: a finished align with maintain=false and a collection on a
\* side has created two marker/group pairs and no other temporary object,
\* called the native primitive on the two markers, and deleted all of them.
C4_ExactlyTwoPairs ==
    (op = "align" /\ pc = "done" /\ ~frame.maintain /\ HasCollection)
        => /\ Len(temps) = 4
           /\ Cardinality(Markers) = 2
           /\ Cardinality(PairGroups) = 2
           /\ LiveTemps = {}

\* C4 as amended: the call never takes the native path on a shape's own rod
\* handle; when it returns it has created two marker/group pairs and, for
\* each side that is a collection, one more group (the one skill_b_box reads
\* the collection's box from), has called the native primitive once, on the
\* two markers with maintain=false, and has deleted every one of them.
C4_TwoPairsAndBoxGroups ==
    (op = "align" /\ ~frame.maintain /\ HasCollection)
        => /\ pc # "native_rod"
           /\ \A i \in DOMAIN AlignCalls : IsTemp(AlignCalls[i].obj)
           /\ pc = "done" =>
                 /\ Cardinality(Markers) = 2
                 /\ Cardinality(PairGroups) = 2
                 /\ Cardinality(BareGroups) = Cardinality(CollectionSides)
                 /\ LiveTemps = {}
                 /\ Len(AlignCalls) = 1
                 /\ AlignCalls[1].obj - NLeaves \in Markers
                 /\ AlignCalls[1].ref - NLeaves \in Markers
                 /\ AlignCalls[1].obj # AlignCalls[1].ref
                 /\ ~AlignCalls[1].maintain

C4_Witness ==
    /\ op = "align"
    /\ pc = "done"
    /\ IsCollection(frame.shape)
    /\ IsCollection(frame.ref_shape)
    /\ Cardinality(BareGroups) = 2
    /\ Cardinality(PairGroups) = 2
    /\ LiveTemps = {}

C6_InvalidRequestRejected ==
    (op = "align" /\ (frame.nkw # 1 \/ frame.ref_handle = ""))
        => /\ pc = "raised"
           /\ err = "InvalidAlignmentRequest"
           /\ NoRemoteCall

C6_Witness ==
    /\ op = "align"
    /\ frame.nkw = 1
    /\ frame.ref_handle = ""
    /\ err = "InvalidAlignmentRequest"
    /\ NoRemoteCall

\* the anchors bound in the state: on the two handles and in the align call
BoundAnchors == {hSelf.handle, hRef.handle, frame.align_handle, frame.ref_handle}

\* C7 as claimed: every anchor the registry resolves to is one of the eight
\* listed anchors, and "center" resolves like "center_center".
C7_EightAnchors ==
    /\ BoundAnchors \subseteq EightAnchors \cup {""}
    /\ python_skill_handle["center"] = python_skill_handle["center_center"]

\* C7 as amended: every anchor the registry resolves to is one of nine: the
\* eight listed ones or center-center; "center" resolves like
\* "center_center", to center-center.
C7_NineAnchors ==
    /\ BoundAnchors \subseteq NineAnchors \cup {""}
    /\ \A name \in RegistryNames : python_skill_handle[name] \in NineAnchors
    /\ python_skill_handle["center"] = python_skill_handle["center_center"]
    /\ python_skill_handle["center"] = "centerCenter"

C7_Witness ==
    /\ hSelf.handle = "centerCenter"
    /\ hRef.handle = "upperLeft"

\* C8: a name the table does not hold makes the resolution raise the
\* unknown-handle error and bind nothing, on a shape, on a handle and as the
\* keyword of align, where no remote call has been made.
C8_UnknownNameRaises ==
    [][asked' # ""
          => /\ pc' = "raised"
             /\ err' = "UnknownHandle"
             /\ op' \in {"shape_getattr", "handle_getattr", "align"}
             /\ op' # "align" => hSelf' = hSelf /\ hRef' = hRef
             /\ op' = "align" => frame'.align_handle = "" /\ NoRemoteCall'
      ]_vars

C8_Witness ==
    /\ op = "align"
    /\ pc = "raised"
    /\ err = "UnknownHandle"
    /\ asked = "upperLeft"
    /\ frame.nkw = 1
    /\ frame.ref_handle # ""
    /\ NoRemoteCall

\* C9: the container query of a collection with at least one element returns
\* C exactly when every element reports C, and ends in the
\* container-mismatch error when two elements report different containers.
C9_ContainerQuery ==
    (/\ op = "cell_view"
     /\ pc \in {"done", "raised"}
     /\ failed = <<>>
     /\ frame.shape.elements # <<>>)
        => LET es == frame.shape.elements
               rep(i) == cell_view(es[i])
           IN /\ \A c \in {Cv1, Cv2} :
                    (pc = "done" /\ result = c)
                        <=> \A i \in DOMAIN es : rep(i).err = "none" /\ rep(i).cv = c
              /\ (\E i, j \in DOMAIN es :
                     /\ rep(i).err = "none" /\ rep(j).err = "none"
                     /\ rep(i).cv # rep(j).cv)
                    => (pc = "raised" /\ err = "ContainerMismatch")

\* C10: when skill_b_box raises, the temporary group it created is deleted.
C10_BoxGroupDeletedOnError ==
    (op = "skill_b_box" /\ pc = "raised") => LiveTemps = {}

\* a collection that is empty or whose elements are all collections, with
\* every remote object it holds in one cell view
OneContainer(shape) ==
    \A i, j \in IdSet(shape) : Fixture[i].cv = Fixture[j].cv

EmptyOrNested(shape) ==
    \/ shape.elements = <<>>
    \/ \A i \in DOMAIN shape.elements : IsCollection(shape.elements[i])

\* C11: skill_b_box of an empty collection, and of a collection of
\* collections, does not raise: it creates the group, adds every contained
\* id, reads the group's box, deletes the group and returns the box read.
C11_BBoxOfEmptyOrNested ==
    (/\ op = "skill_b_box"
     /\ failed = <<>>
     /\ EmptyOrNested(frame.shape)
     /\ OneContainer(frame.shape))
        => /\ pc # "raised"
           /\ pc = "done" =>
                 /\ Len(temps) = 1
                 /\ temps[1].type = "figGroup"
                 /\ temps[1].figs = get_db_ids(frame.shape)
                 /\ ~temps[1].valid
                 /\ result = GroupBox(temps[1].figs)

\* C12: copy returns a proxy of the receiver's variant that wraps the
\* duplicate; the receiver's remote object is as it was.
C12_CopyKeepsVariant ==
    (op = "copy" /\ pc = "done")
        => /\ result.variant = frame.shape.variant
           /\ IsTemp(result.db)
           /\ Temp(result.db).valid
           /\ Temp(result.db).type = Fixture[frame.shape.db].obj_type
           /\ b_box = [o \in Leaves |-> Fixture[o].b_box]

\* the steps of ghost_shape before its try block, and the first deletion of
\* its finally block
SetupSteps == {"gs_rect", "gs_group", "gs_add_marker", "gs_add_fig"}

\* C13: when a remote call of a ghost scope's set-up fails, or the deletion
\* of a temporary group fails, no marker and no temporary group survives the
\* align call.
C13_SetupFailureLeavesNoTemps ==
    (/\ op = "align"
     /\ pc = "raised"
     /\ failed # <<>>
     /\ \A i \in DOMAIN failed : failed[i] \in SetupSteps \cup {"fin_group"})
        => LiveTemps = {}

LocalErrors ==
    {"UnknownHandle", "UnsupportedOperation", "InvalidAlignmentRequest",
     "IncompatibleAlignment", "ContainerMismatch"}

\* C14: when align fails with a local validation error, the call has not
\* created, grouped, moved or deleted any remote object.
C14_LocalErrorBeforeMutation ==
    (op = "align" /\ failed = <<>> /\ err \in LocalErrors)
        => /\ temps = <<>>
           /\ b_box = [o \in Leaves |-> Fixture[o].b_box]
           /\ \A i \in DOMAIN log :
                 log[i].op \in {"cell_view", "b_box", "pr_boundary"}

\* the markers that a group holds, the group of each, and the deletions the
\* scopes owe: the group and then the marker of the scope opened last, then
\* those of the scope opened before it
PairedMarkers ==
    {m \in Markers : \E g \in PairGroups :
        \E i \in DOMAIN temps[g].figs : temps[g].figs[i] = m + NLeaves}

GroupOfMarker(m) ==
    CHOOSE g \in PairGroups :
        \E i \in DOMAIN temps[g].figs : temps[g].figs[i] = m + NLeaves

RECURSIVE DeletesOwed(_)
DeletesOwed(ms) ==
    IF ms = {} THEN <<>>
    ELSE LET m == CHOOSE x \in ms : \A y \in ms : y <= x
         IN <<GroupOfMarker(m) + NLeaves, m + NLeaves>> \o DeletesOwed(ms \ {m})

\* the deletions of markers and of their groups issued so far, in order
GhostDeletes ==
    LET d == SelectSeq(log, LAMBDA c :
                 /\ c.op = "delete_object"
                 /\ c.ok
                 /\ (c.obj - NLeaves) \in Markers \cup PairGroups)
    IN [i \in DOMAIN d |-> d[i].obj]

IsPrefix(a, b) == Len(a) <= Len(b) /\ \A i \in DOMAIN a : a[i] = b[i]

\* C15: on the ghost path the reference side's group and then its marker are
\* deleted before the aligned side's group and then its marker, also when
\* the native primitive raises, and the native primitive is called only
\* while both markers and both groups exist.
C15_UnwindInnerToOuter ==
    (/\ op = "align"
     /\ \A i \in DOMAIN failed : failed[i] = "native")
        => /\ IsPrefix(GhostDeletes, DeletesOwed(PairedMarkers))
           /\ pc \in {"done", "raised"} => GhostDeletes = DeletesOwed(PairedMarkers)
           /\ (pc = "native" \/ \E i \in DOMAIN log : log[i].op = "rod.align"
                                                       /\ IsTemp(log[i].obj))
                 => /\ Cardinality(PairedMarkers) = 2
                    /\ Cardinality(PairGroups) = 2
           /\ pc = "native" => (Markers \cup PairGroups) \subseteq LiveTemps
           /\ \A i, j \in DOMAIN log :
                 (/\ log[i].op = "delete_object"
                  /\ (log[i].obj - NLeaves) \in Markers \cup PairGroups
                  /\ log[j].op = "rod.align")
                    => j < i

C15_Witness ==
    /\ op = "align"
    /\ pc = "raised"
    /\ failed = <<"native">>
    /\ Len(GhostDeletes) = 4
    /\ GhostDeletes = DeletesOwed(PairedMarkers)
    /\ Temp(GhostDeletes[1]).type = "figGroup"
    /\ Temp(GhostDeletes[4]).type = "rect"
    /\ GhostDeletes[4] < GhostDeletes[2]
====
